---- MODULE Spec2Model ----
(***************************************************************************)
(* Model of cybercongress/prompting:                                       *)
(*   - prompting/dendrite.py   DendriteResponseEvent.__init__              *)
(*   - prompting/llms/vllm_llm.py   vLLM_LLM.__init__ / vLLM_LLM.query     *)
(*   - the mock dendrite exercised by tests/test_mock.py                   *)
(*                                                                         *)
(* Times are integers.  For the aggregator they are abstract time units.   *)
(* For the mock dendrite one unit is 0.05 s, so that the parameters of     *)
(* test_mock_dendrite_timings (0, 0.05, 0.1, 0.15, 0.2) are 0..4.          *)
(*                                                                         *)
(* An optional float (TerminalInfo.process_time) is a sequence of length   *)
(* at most one: <<>> is None, <<t>> is the float t.                        *)
(***************************************************************************)
EXTENDS Integers, Sequences, FiniteSets, TLC

VARIABLES
    \* ---- DendriteResponseEvent (prompting/dendrite.py)
    responses,      \* the synapse objects of the batch (mutable, shared with the caller)
    uids,           \* the uids argument
    timeout,        \* the timeout argument
    events,         \* the events constructed so far from this batch, oldest first
    inputs,         \* history: inputs[k] is the batch as it was when events[k] was built
    \* ---- vLLM_LLM (prompting/llms/vllm_llm.py)
    system_prompt,  \* self.system_prompt
    messages,       \* self.messages
    times,          \* self.times
    calls,          \* history: the query calls that returned normally, in order
    ncalls,         \* history: number of query calls made (returned or raised)
    lastOutcome,    \* history: "none", "returned" or "raised" for the latest query
    prevMessages,   \* history: self.messages when the latest query was entered
    prevTimes,      \* history: self.times when the latest query was entered
    \* ---- mock dendrite round (tests/test_mock.py)
    MIN_TIME,       \* mock_dendrite.MIN_TIME
    MAX_TIME,       \* mock_dendrite.MAX_TIME
    roundTimeout,   \* the timeout of the round
    axons,          \* number of axons queried in the round
    mockPc,         \* "idle", "running" or "returned"
    pending,        \* axons whose task has not produced its response yet
    mockResponses   \* axon -> the response its task produced (function on the done axons)

eventVars == <<responses, uids, timeout, events, inputs>>
llmVars   == <<system_prompt, messages, times, calls, ncalls, lastOutcome,
               prevMessages, prevTimes>>
mockVars  == <<MIN_TIME, MAX_TIME, roundTimeout, axons, mockPc, pending, mockResponses>>
vars      == <<eventVars, llmVars, mockVars>>

(***************************************************************************)
(* Bounds and input domains                                                *)
(***************************************************************************)
MaxBatch == 2                       \* longest batch of responses / uids

Completions    == {"", "Paris"}
StatusCodes    == {200, 204, 408, 500}
StatusMessages == {"OK", "Timeout"}
ProcessTimes   == {<<>>, <<0>>, <<2>>}      \* None, 0.0, a positive float
Timeouts       == {1, 2}

Synapses ==
    [completion : Completions, status_code : StatusCodes,
     status_message : StatusMessages, process_time : ProcessTimes]

SeqsUpTo(S, n) == UNION {[1..m -> S] : m \in 0..n}

Batches == SeqsUpTo(Synapses, MaxBatch)
UidSeqs == {[i \in 1..m |-> i + 10] : m \in 0..MaxBatch}

(***************************************************************************)
(* prompting/dendrite.py                                                   *)
(***************************************************************************)

\* Python truthiness of an optional float: None and 0.0 are falsy.
Truthy(pt) == pt # <<>> /\ pt[1] # 0

\* Variant: the rewrite of lines 20-21 left out.
ReclassifyNever(synapse) == synapse

\* Variant: the rewrite without its `status_code == 200` test.
ReclassifyAnyEmpty(synapse) ==
    IF synapse.completion = ""
    THEN [synapse EXCEPT !.status_code = 204]
    ELSE synapse

\* lines 20-21: an empty completion with status 200 is rewritten to 204,
\* in place, on the synapse object itself.
Reclassify(synapse) ==
    IF synapse.completion = "" /\ synapse.status_code = 200
    THEN [synapse EXCEPT !.status_code = 204]
    ELSE synapse

\* lines 25-33: the timing the loop appends (read after the rewrite above).
LoopTiming(synapse, tmo) ==
    IF Truthy(synapse.process_time) /\ synapse.status_code \in {200, 204}
    THEN synapse.process_time[1]
    ELSE IF synapse.status_code = 408 THEN tmo ELSE 0

\* Variant: every timing is the round timeout.
OverwriteTimingAlwaysTimeout(synapse, tmo) == tmo

\* lines 36-38: `synapse.dendrite.process_time or timeout`.
OverwriteTiming(synapse, tmo) ==
    IF Truthy(synapse.process_time) THEN synapse.process_time[1] ELSE tmo

\* The synapse objects as the loop of lines 16-33 leaves them.
AfterLoop(batch) == [i \in DOMAIN batch |-> Reclassify(batch[i])]

\* lines 10-33: the attributes as they stand when the loop has finished.
LoopEvent(batch, ids, tmo) ==
    [uids            |-> ids,
     completions     |-> [i \in DOMAIN batch |-> batch[i].completion],
     status_messages |-> [i \in DOMAIN batch |-> batch[i].status_message],
     status_codes    |-> [i \in DOMAIN batch |-> AfterLoop(batch)[i].status_code],
     timings         |-> [i \in DOMAIN batch |-> LoopTiming(AfterLoop(batch)[i], tmo)]]

\* Variant: the four lists built from the synapses as they came in, before
\* the loop's rewrite.
DendriteResponseEventStaleCodes(batch, ids, tmo) ==
    [uids            |-> ids,
     completions     |-> [i \in DOMAIN batch |-> batch[i].completion],
     status_messages |-> [i \in DOMAIN batch |-> batch[i].status_message],
     status_codes    |-> [i \in DOMAIN batch |-> batch[i].status_code],
     timings         |-> [i \in DOMAIN batch |-> OverwriteTiming(batch[i], tmo)]]

\* lines 7-42: the constructed event.  Lines 35-42 assign the four lists
\* again, from the synapse objects as the loop left them.
DendriteResponseEvent(batch, ids, tmo) ==
    LET synapses == AfterLoop(batch)
    IN  [LoopEvent(batch, ids, tmo) EXCEPT
            !.completions     = [i \in DOMAIN synapses |-> synapses[i].completion],
            !.timings         = [i \in DOMAIN synapses |-> OverwriteTiming(synapses[i], tmo)],
            !.status_messages = [i \in DOMAIN synapses |-> synapses[i].status_message],
            !.status_codes    = [i \in DOMAIN synapses |-> synapses[i].status_code]]

InitEvent ==
    /\ responses \in Batches
    /\ uids \in UidSeqs
    /\ timeout \in Timeouts
    /\ events = <<>>
    /\ inputs = <<>>

\* One call DendriteResponseEvent(responses, uids, timeout).  The same
\* objects are aggregated at most twice.
Construct ==
    /\ Len(events) < 2
    /\ events' = Append(events, DendriteResponseEvent(responses, uids, timeout))
    /\ inputs' = Append(inputs, responses)
    /\ responses' = AfterLoop(responses)
    /\ UNCHANGED <<uids, timeout>>

(***************************************************************************)
(* prompting/llms/vllm_llm.py                                              *)
(***************************************************************************)
MaxQueries == 3                     \* query calls made on one vLLM_LLM

SystemPrompts == {"You are a helpful AI assistant"}
Messages      == {"What is the capital of Texas?", "And of France?"}
Roles         == {"user", "system"}
RawResponses  == {"Austin", " Austin "}     \* what the pipeline generates
Cleaners      == {"None", "strip"}          \* the cleaner argument
Elapsed       == {0, 3}                     \* time.time() - t0

\* line 126: self.clean_response(cleaner, response).  Without a cleaner the
\* response is returned as generated; the cleaner pipeline used here removes
\* the surrounding blanks.
clean_response(cleaner, response) ==
    IF cleaner = "strip" /\ response = " Austin " THEN "Austin" ELSE response

\* line 122: self.messages + [{"content": message, "role": role}]
WithSent(msgs, message, role) ==
    msgs \o <<[content |-> message, role |-> role]>>

\* line 128: messages + [{"content": response, "role": "assistant"}]
WithAnswer(msgs, response) ==
    msgs \o <<[content |-> response, role |-> "assistant"]>>

\* Variant: one entry per query instead of two.
NewTimesOneEntry(ts, dt) == ts \o <<dt>>

\* line 129: self.times + [0, time.time() - t0]
NewTimes(ts, dt) == ts \o <<0, dt>>

\* lines 95-112: vLLM_LLM.__init__
InitLLM ==
    /\ system_prompt \in SystemPrompts
    /\ messages = <<[content |-> system_prompt, role |-> "system"]>>
    /\ times = <<0>>
    /\ calls = <<>>
    /\ ncalls = 0
    /\ lastOutcome = "none"
    /\ prevMessages = messages
    /\ prevTimes = times

\* lines 114-131: a query call whose forward and clean_response both return.
QueryReturns ==
    /\ ncalls < MaxQueries
    /\ \E message \in Messages, role \in Roles, raw \in RawResponses,
          cleaner \in Cleaners, dt \in Elapsed :
          LET sent     == WithSent(messages, message, role)
              response == clean_response(cleaner, raw)
          IN  /\ messages' = WithAnswer(sent, response)
              /\ times' = NewTimes(times, dt)
              /\ calls' = Append(calls, [message |-> message, role |-> role,
                                         returned |-> response])
    /\ ncalls' = ncalls + 1
    /\ lastOutcome' = "returned"
    /\ prevMessages' = messages
    /\ prevTimes' = times
    /\ UNCHANGED system_prompt

\* lines 122-126: a query call in which self.forward (line 125) or
\* self.clean_response (line 126) raises; lines 128-129 are not reached and
\* only the local variable `messages` was assigned.
QueryRaises ==
    /\ ncalls < MaxQueries
    /\ ncalls' = ncalls + 1
    /\ lastOutcome' = "raised"
    /\ prevMessages' = messages
    /\ prevTimes' = times
    /\ UNCHANGED <<system_prompt, messages, times, calls>>

(***************************************************************************)
(* The mock dendrite of prompting/mock.py, as tests/test_mock.py drives it *)
(***************************************************************************)
MaxAxons == 2                       \* axons queried in one round

\* test_mock.py lines 57-59, in units of 0.05 s
TestTimeouts == {2, 4}
TestMinTimes == {0, 1, 2}
TestMaxTimes == {2, 3, 4}

\* Variant: a draw equal to the timeout still counts as a success.
ClassifyInclusive(i, t, tmo) ==
    IF t <= tmo
    THEN [completion |-> "Mock miner completion", status_code |-> 200,
          status_message |-> "OK", process_time |-> t]
    ELSE [completion |-> "", status_code |-> 408,
          status_message |-> "Timeout", process_time |-> t]

\* The response of axon i whose drawn process time is t: a success below
\* the timeout, a timeout otherwise; the process time reported is the draw.
Classify(i, t, tmo) ==
    IF t < tmo
    THEN [completion |-> "Mock miner completion", status_code |-> 200,
          status_message |-> "OK", process_time |-> t]
    ELSE [completion |-> "", status_code |-> 408,
          status_message |-> "Timeout", process_time |-> t]

\* test_mock.py lines 62-68: the dendrite, its time range and the axons.
InitMock ==
    /\ MIN_TIME \in TestMinTimes
    /\ MAX_TIME \in TestMaxTimes
    /\ roundTimeout \in TestTimeouts
    /\ axons \in 1..MaxAxons
    /\ mockPc = "idle"
    /\ pending = {}
    /\ mockResponses = <<>>

\* test_mock.py lines 70-77: the call; one task per axon is started.
MockCall ==
    /\ mockPc = "idle"
    /\ mockPc' = "running"
    /\ pending' = 1..axons
    /\ mockResponses' = [i \in {} |-> 0]
    /\ UNCHANGED <<MIN_TIME, MAX_TIME, roundTimeout, axons>>

\* The task of axon i draws its process time and produces its response.
SingleAxonResponse(i) ==
    /\ mockPc = "running"
    /\ i \in pending
    /\ \E t \in MIN_TIME..MAX_TIME :
          mockResponses' = [j \in DOMAIN mockResponses \cup {i} |->
                               IF j = i THEN Classify(i, t, roundTimeout)
                               ELSE mockResponses[j]]
    /\ pending' = pending \ {i}
    /\ UNCHANGED <<MIN_TIME, MAX_TIME, roundTimeout, axons, mockPc>>

\* The call joins its tasks and returns the responses (test_mock.py line 80).
MockReturn ==
    /\ mockPc = "running"
    /\ pending = {}
    /\ mockPc' = "returned"
    /\ UNCHANGED <<MIN_TIME, MAX_TIME, roundTimeout, axons, pending, mockResponses>>

(***************************************************************************)
(* Idle values of the components a specification does not run              *)
(***************************************************************************)
EventIdle ==
    /\ responses = <<>> /\ uids = <<>> /\ timeout = 1
    /\ events = <<>> /\ inputs = <<>>

LLMIdle ==
    /\ system_prompt = "" /\ messages = <<>> /\ times = <<>>
    /\ calls = <<>> /\ ncalls = 0 /\ lastOutcome = "none"
    /\ prevMessages = <<>> /\ prevTimes = <<>>

MockIdle ==
    /\ MIN_TIME = 0 /\ MAX_TIME = 0 /\ roundTimeout = 0 /\ axons = 0
    /\ mockPc = "idle" /\ pending = {} /\ mockResponses = <<>>

(***************************************************************************)
(* Specifications                                                          *)
(***************************************************************************)
Init == InitEvent /\ LLMIdle /\ MockIdle

Next == Construct /\ UNCHANGED <<llmVars, mockVars>>

Spec == Init /\ [][Next]_vars

InitQuery == InitLLM /\ EventIdle /\ MockIdle

NextQuery ==
    \/ QueryReturns /\ UNCHANGED <<eventVars, mockVars>>
    \/ QueryRaises /\ UNCHANGED <<eventVars, mockVars>>

SpecLLM == InitQuery /\ [][NextQuery]_vars

InitRound == InitMock /\ EventIdle /\ LLMIdle

NextRound ==
    \/ MockCall /\ UNCHANGED <<eventVars, llmVars>>
    \/ \E i \in 1..MaxAxons : SingleAxonResponse(i) /\ UNCHANGED <<eventVars, llmVars>>
    \/ MockReturn /\ UNCHANGED <<eventVars, llmVars>>

SpecMock == InitRound /\ [][NextRound]_vars

(***************************************************************************)
(* Properties of DendriteResponseEvent (checked under Spec)                *)
(***************************************************************************)

\* The synapse objects as construction k left them: nothing but Construct
\* touches them, so they are the input of the next construction, or the
\* current objects after the latest one.
Post(k) == IF k = Len(events) THEN responses ELSE inputs[k + 1]

EmptyOk(synapse) == synapse.completion = "" /\ synapse.status_code = 200

\* C1: a response that comes in with an empty completion and status code 200
\* has status code 204 at its index of the event's status_codes.
C1_EmptyOkRecordedAs204 ==
    \A k \in DOMAIN events : \A i \in DOMAIN inputs[k] :
        EmptyOk(inputs[k][i]) =>
            /\ i \in DOMAIN events[k].status_codes
            /\ events[k].status_codes[i] = 204

C1_Witness ==
    \E k \in DOMAIN events : \E i \in DOMAIN inputs[k] :
        /\ EmptyOk(inputs[k][i])
        /\ events[k].status_codes[i] = 204

\* C2 (as claimed): a response with status code 408 has the round timeout as
\* its timing, whatever its process_time.
C2_TimeoutTimingIsTimeout ==
    \A k \in DOMAIN events : \A i \in DOMAIN inputs[k] :
        inputs[k][i].status_code = 408 => events[k].timings[i] = timeout

\* C3 (as claimed): a response whose status code is none of 200, 204, 408 has
\* timing 0, and its status code and message are recorded as supplied.
C3_OtherCodeTimingIsZero ==
    \A k \in DOMAIN events : \A i \in DOMAIN inputs[k] :
        inputs[k][i].status_code \notin {200, 204, 408} =>
            /\ events[k].timings[i] = 0
            /\ events[k].status_codes[i] = inputs[k][i].status_code
            /\ events[k].status_messages[i] = inputs[k][i].status_message

\* C4 (as claimed): construction leaves every input response as it was.
C4_InputsUntouched ==
    \A k \in DOMAIN events : Post(k) = inputs[k]

\* C4 (amended): construction leaves the completion, status message and
\* process time of every input response as they were, and its status code
\* too, except that an empty completion with status code 200 now has 204.
C4_OnlyEmptyOkRewritten ==
    \A k \in DOMAIN events :
        /\ DOMAIN Post(k) = DOMAIN inputs[k]
        /\ \A i \in DOMAIN inputs[k] :
              /\ Post(k)[i].completion = inputs[k][i].completion
              /\ Post(k)[i].status_message = inputs[k][i].status_message
              /\ Post(k)[i].process_time = inputs[k][i].process_time
              /\ Post(k)[i].status_code =
                    IF EmptyOk(inputs[k][i]) THEN 204 ELSE inputs[k][i].status_code

C4_Witness ==
    \E k \in DOMAIN events : \E i, j \in DOMAIN inputs[k] :
        /\ EmptyOk(inputs[k][i]) /\ Post(k)[i].status_code = 204
        /\ inputs[k][j].completion = "" /\ inputs[k][j].status_code = 408
        /\ Post(k)[j] = inputs[k][j]

\* C5 (as claimed): the five sequences of the event have the length of the
\* batch, and index i of each refers to the i-th response.
C5_FiveAlignedSequences ==
    \A k \in DOMAIN events :
        LET e == events[k] n == Len(inputs[k])
        IN  /\ Len(e.completions) = n /\ Len(e.timings) = n
            /\ Len(e.status_messages) = n /\ Len(e.status_codes) = n
            /\ Len(e.uids) = n
            /\ \A i \in 1..n :
                  /\ e.completions[i] = inputs[k][i].completion
                  /\ e.status_messages[i] = inputs[k][i].status_message
                  /\ e.status_codes[i] = Post(k)[i].status_code

\* C6 (as claimed): no event is produced from a batch and a uids sequence of
\* different lengths.
C6_MismatchProducesNoEvent ==
    \A k \in DOMAIN events : Len(inputs[k]) = Len(events[k].uids)

\* C7: two constructions in succession from the same response objects, uids
\* and timeout give the same completions, timings, status_messages and
\* status_codes.
C7_SecondEventEqualsFirst ==
    Len(events) = 2 =>
        /\ events[1].completions = events[2].completions
        /\ events[1].timings = events[2].timings
        /\ events[1].status_messages = events[2].status_messages
        /\ events[1].status_codes = events[2].status_codes

C7_Witness ==
    /\ Len(events) = 2
    /\ inputs[1] # inputs[2]
    /\ events[1].status_codes = events[2].status_codes

\* C8: a response with status code 200 and a positive process_time has that
\* process_time as its timing, also when its completion is empty.
C8_OkTimingIsProcessTime ==
    \A k \in DOMAIN events : \A i \in DOMAIN inputs[k] :
        LET pt == inputs[k][i].process_time
        IN  (inputs[k][i].status_code = 200 /\ pt # <<>> /\ pt[1] > 0) =>
                events[k].timings[i] = pt[1]

C8_Witness ==
    \E k \in DOMAIN events : \E i, j \in DOMAIN inputs[k] :
        /\ EmptyOk(inputs[k][i]) /\ inputs[k][i].process_time = <<2>>
        /\ events[k].status_codes[i] = 204 /\ events[k].timings[i] = 2
        /\ inputs[k][j].status_code = 200 /\ inputs[k][j].completion # ""
        /\ inputs[k][j].process_time = <<2>> /\ events[k].timings[j] = 2
        /\ timeout # 2

(***************************************************************************)
(* Properties of the mock dendrite round (checked under SpecMock)          *)
(***************************************************************************)

C10_MessagesAndTimes ==
    /\ Len(messages) = 1 + 2 * Len(calls)
    /\ messages[1] = [content |-> system_prompt, role |-> "system"]
    /\ \A j \in DOMAIN calls :
          /\ messages[2 * j] = [content |-> calls[j].message, role |-> calls[j].role]
          /\ messages[2 * j + 1] = [content |-> calls[j].returned, role |-> "assistant"]
    /\ Len(times) = Len(messages)
    /\ lastOutcome = "raised" => (messages = prevMessages /\ times = prevTimes)

C10_Witness ==
    /\ Len(calls) = 2
    /\ lastOutcome = "raised"
    /\ Len(messages) = 5
    /\ messages[3].content = "Austin"
    /\ messages[5].content = " Austin "

====
